---- MODULE Spec2Model ----
(***************************************************************************)
(* Model of jules-scratch/verification/verify_users_page.py: the script    *)
(* run_verification(), run as a process (python verify_users_page.py),     *)
(* possibly several times in succession against the same working           *)
(* directory.                                                              *)
(*                                                                         *)
(* One action per statement of the script.  The environment of a run (is   *)
(* the server up, are the admin credentials accepted, which call hits a    *)
(* fault such as a timeout, does browser.close() fail) is drawn when the   *)
(* process starts; given the environment the script is deterministic, as   *)
(* the code is.                                                            *)
(***************************************************************************)
EXTENDS Integers, Sequences, FiniteSets, TLC

VARIABLES
    run,         \* which execution of the script this is (1, 2, ...)
    pc,          \* the statement about to be executed
    serverUp,    \* environment: http://localhost:1717 answers
    credsValid,  \* environment: admin/admin is accepted by the server
    fault,       \* environment: the call before close that hits a fault, or "none"
    closeFails,  \* environment: browser.close() raises
    driver,      \* the Playwright driver of sync_playwright(): none/running/stopped
    browser,     \* the browser process: none/running/closed
    page,        \* what the page shows: none/blank/login/dashboard/users
    calls,       \* the calls completed so far in this run, in order, each
                 \* with whether it returned normally (ok) or raised
    exc,         \* the exception in flight (the call that raised it), or "none"
    stdout,      \* the messages printed in this run (each names the failed call)
    file,        \* the file at jules-scratch/verification/verification.png
    fileAtStart, \* that file as it was when this run started
    exitStatus   \* the exit status of the process, -1 while it runs

vars == <<run, pc, serverUp, credsValid, fault, closeFails, driver, browser,
          page, calls, exc, stdout, file, fileAtStart, exitStatus>>

\* How many times the script is run in succession.
MaxRuns == 2

----------------------------------------------------------------------------
(* The statements of the script. *)

\* Lines 4-6: before the try block.
SetupSteps == <<"sync_playwright", "launch", "new_page">>

\* Lines 10-25: the body of the try block, in source order.
FlowSteps == <<"goto", "fill_username", "fill_password", "click_sign_in",
               "expect_dashboard", "click_user_management", "expect_users",
               "screenshot">>

Range(s) == {s[i] : i \in 1..Len(s)}

IndexOf(s, e) == CHOOSE i \in 1..Len(s) : s[i] = e

\* The calls a fault can be injected into (close has its own flag).
Faultable == Range(SetupSteps) \cup Range(FlowSteps)

\* After, with the screenshot statement left out of the try block.
AfterSkipScreenshot(step) ==
    IF step = "sync_playwright" THEN "launch"
    ELSE IF step = "launch" THEN "new_page"
    ELSE IF step = "new_page" THEN "goto"
    ELSE IF step = "expect_users" THEN "close"
    ELSE IF step = "screenshot" THEN "close"
    ELSE IF step = "except" THEN "close"
    ELSE IF step = "close" THEN "exit_with"
    ELSE FlowSteps[IndexOf(FlowSteps, step) + 1]

\* After, with the statements in the order of the system overview: both text
\* assertions, then the click on the navigation link.
AfterSpecOrder(step) ==
    IF step = "sync_playwright" THEN "launch"
    ELSE IF step = "launch" THEN "new_page"
    ELSE IF step = "new_page" THEN "goto"
    ELSE IF step = "expect_dashboard" THEN "expect_users"
    ELSE IF step = "expect_users" THEN "click_user_management"
    ELSE IF step = "click_user_management" THEN "screenshot"
    ELSE IF step = "screenshot" THEN "close"
    ELSE IF step = "except" THEN "close"
    ELSE IF step = "close" THEN "exit_with"
    ELSE FlowSteps[IndexOf(FlowSteps, step) + 1]

\* After, with the screenshot taken in the finally block, before close.
AfterScreenshotInFinally(step) ==
    IF step = "sync_playwright" THEN "launch"
    ELSE IF step = "launch" THEN "new_page"
    ELSE IF step = "new_page" THEN "goto"
    ELSE IF step = "expect_users" THEN "screenshot"
    ELSE IF step = "screenshot" THEN "close"
    ELSE IF step = "except" THEN "screenshot"
    ELSE IF step = "close" THEN "exit_with"
    ELSE FlowSteps[IndexOf(FlowSteps, step) + 1]

\* The statement that follows `step` when it returns normally.  The last
\* statement of the try block is followed by the finally block: the except
\* block is skipped when nothing was raised.
After(step) ==
    IF step = "sync_playwright" THEN "launch"
    ELSE IF step = "launch" THEN "new_page"
    ELSE IF step = "new_page" THEN "goto"
    ELSE IF step = "screenshot" THEN "close"
    ELSE IF step = "except" THEN "close"
    ELSE IF step = "close" THEN "exit_with"
    ELSE FlowSteps[IndexOf(FlowSteps, step) + 1]

\* Handler, with launch and new_page inside the try block.
HandlerCatchesSetup(step) ==
    IF step \in Range(FlowSteps) \cup {"launch", "new_page"} THEN "except"
    ELSE IF step = "sync_playwright" THEN "exit"
    ELSE "exit_with"

\* Handler, with text assertions that wait without a timeout: a failing
\* assertion never returns.
HandlerNoTimeout(step) ==
    IF step \in {"expect_dashboard", "expect_users"} THEN "waiting"
    ELSE IF step \in Range(FlowSteps) THEN "except"
    ELSE IF step = "sync_playwright" THEN "exit"
    ELSE "exit_with"

\* Where control goes when `step` raises an Exception: a statement of the try
\* block is handled by `except Exception`; launch and new_page (before the
\* try) and close (in the finally block) are not covered by any handler, so
\* the exception unwinds through the with block; if sync_playwright() itself
\* raises, the with block was never entered.
Handler(step) ==
    IF step \in Range(FlowSteps) THEN "except"
    ELSE IF step = "sync_playwright" THEN "exit"
    ELSE "exit_with"

\* The file states.
Absent == [exists |-> FALSE, writer |-> 0, complete |-> FALSE]

\* A file that was at the path before the first modelled run (writer 0).
Preexisting == [exists |-> TRUE, writer |-> 0, complete |-> TRUE]

\* WriteFile, creating the file only when none is there.
WriteFileExclusive(f, r) ==
    IF f.exists THEN f ELSE [exists |-> TRUE, writer |-> r, complete |-> TRUE]

\* page.screenshot(path=...) succeeding in run r: the file at the path is
\* created or replaced by this run's image, whatever was there.
WriteFile(f, r) == [exists |-> TRUE, writer |-> r, complete |-> TRUE]

\* page.screenshot(path=...) failing in run r: nothing written, or the file
\* was opened for writing and the write did not complete.
FailedWrite(f, r) == {f, [exists |-> TRUE, writer |-> r, complete |-> FALSE]}

\* StopDriver, without the scoped release: the browser is left as it is.
StopDriverLeavesBrowser(b) == b

\* Leaving `with sync_playwright()`: the driver is stopped, and a browser it
\* launched that is still running goes down with it.
StopDriver(b) == IF b = "running" THEN "closed" ELSE b

\* The exit status of the interpreter: 0 when run_verification() returned,
\* 1 when an exception left it uncaught (traceback).
ExitCode(e) == IF e = "none" THEN 0 ELSE 1

\* What the page shows after the SIGN IN click.
AfterSignIn(valid) == IF valid THEN "dashboard" ELSE "login"

\* StepOK, with text assertions that do not look at the page.
StepOKNoAssert(step) ==
    /\ fault # step
    /\ CASE step = "goto" -> serverUp
         [] step \in {"fill_username", "fill_password", "click_sign_in"} ->
                page = "login"
         [] step = "click_user_management" -> page = "dashboard"
         [] OTHER -> TRUE

\* Whether the call `step` succeeds in the current environment.
StepOK(step) ==
    /\ fault # step
    /\ CASE step = "goto" -> serverUp
         [] step \in {"fill_username", "fill_password", "click_sign_in"} ->
                page = "login"
         [] step = "expect_dashboard" -> page = "dashboard"
         [] step = "click_user_management" -> page = "dashboard"
         [] step = "expect_users" -> page = "users"
         [] OTHER -> TRUE

----------------------------------------------------------------------------
(* The environment of one run. *)

Environments ==
    [serverUp : BOOLEAN, credsValid : BOOLEAN,
     fault : Faultable \cup {"none"}, closeFails : BOOLEAN]

SetEnvironment(env) ==
    /\ serverUp' = env.serverUp
    /\ credsValid' = env.credsValid
    /\ fault' = env.fault
    /\ closeFails' = env.closeFails

Init ==
    /\ run = 1
    /\ pc = "sync_playwright"
    /\ \E env \in Environments :
          /\ serverUp = env.serverUp
          /\ credsValid = env.credsValid
          /\ fault = env.fault
          /\ closeFails = env.closeFails
    /\ driver = "none"
    /\ browser = "none"
    /\ page = "none"
    /\ calls = <<>>
    /\ exc = "none"
    /\ stdout = <<>>
    /\ file \in {Absent, Preexisting}
    /\ fileAtStart = file
    /\ exitStatus = -1

env_vars == <<serverUp, credsValid, fault, closeFails>>

----------------------------------------------------------------------------
(* Control flow shared by the statements. *)

\* `step` returned normally.
Proceed(step) ==
    /\ calls' = Append(calls, [step |-> step, ok |-> TRUE])
    /\ pc' = After(step)
    /\ exc' = exc

\* Raise, with the error recorded and the flow resumed at the next statement.
RaiseAndContinue(step) ==
    /\ calls' = Append(calls, [step |-> step, ok |-> FALSE])
    /\ pc' = After(step)
    /\ exc' = step

\* `step` raised.
Raise(step) ==
    /\ calls' = Append(calls, [step |-> step, ok |-> FALSE])
    /\ pc' = Handler(step)
    /\ exc' = step

----------------------------------------------------------------------------
(* The statements. *)

\* Line 4: with sync_playwright() as p:
StartPlaywright ==
    /\ pc = "sync_playwright"
    /\ IF StepOK("sync_playwright")
       THEN Proceed("sync_playwright") /\ driver' = "running"
       ELSE Raise("sync_playwright") /\ driver' = driver
    /\ UNCHANGED <<run, env_vars, browser, page, stdout, file, fileAtStart,
                   exitStatus>>

\* Line 5: browser = p.chromium.launch(headless=True)
Launch ==
    /\ pc = "launch"
    /\ IF StepOK("launch")
       THEN Proceed("launch") /\ browser' = "running"
       ELSE Raise("launch") /\ browser' = browser
    /\ UNCHANGED <<run, env_vars, driver, page, stdout, file, fileAtStart,
                   exitStatus>>

\* Line 6: page = browser.new_page()
NewPage ==
    /\ pc = "new_page"
    /\ IF StepOK("new_page")
       THEN Proceed("new_page") /\ page' = "blank"
       ELSE Raise("new_page") /\ page' = page
    /\ UNCHANGED <<run, env_vars, driver, browser, stdout, file, fileAtStart,
                   exitStatus>>

\* Line 10: page.goto("http://localhost:1717")
Goto ==
    /\ pc = "goto"
    /\ IF StepOK("goto")
       THEN Proceed("goto") /\ page' = "login"
       ELSE Raise("goto") /\ page' = page
    /\ UNCHANGED <<run, env_vars, driver, browser, stdout, file, fileAtStart,
                   exitStatus>>

\* Line 11: page.get_by_label("Username").fill("admin")
FillUsername ==
    /\ pc = "fill_username"
    /\ IF StepOK("fill_username")
       THEN Proceed("fill_username")
       ELSE Raise("fill_username")
    /\ UNCHANGED <<run, env_vars, driver, browser, page, stdout, file,
                   fileAtStart, exitStatus>>

\* Line 12: page.get_by_label("Password").fill("admin")
FillPassword ==
    /\ pc = "fill_password"
    /\ IF StepOK("fill_password")
       THEN Proceed("fill_password")
       ELSE Raise("fill_password")
    /\ UNCHANGED <<run, env_vars, driver, browser, page, stdout, file,
                   fileAtStart, exitStatus>>

\* Line 13: page.get_by_role("button", name="SIGN IN").click()
ClickSignIn ==
    /\ pc = "click_sign_in"
    /\ IF StepOK("click_sign_in")
       THEN Proceed("click_sign_in") /\ page' = AfterSignIn(credsValid)
       ELSE Raise("click_sign_in") /\ page' = page
    /\ UNCHANGED <<run, env_vars, driver, browser, stdout, file, fileAtStart,
                   exitStatus>>

\* Line 16: expect(page.locator(...)).to_have_text("Dashboard")
ExpectDashboard ==
    /\ pc = "expect_dashboard"
    /\ IF StepOK("expect_dashboard")
       THEN Proceed("expect_dashboard")
       ELSE Raise("expect_dashboard")
    /\ UNCHANGED <<run, env_vars, driver, browser, page, stdout, file,
                   fileAtStart, exitStatus>>

\* Line 19: page.get_by_role("link", name="User Management").click()
ClickUserManagement ==
    /\ pc = "click_user_management"
    /\ IF StepOK("click_user_management")
       THEN Proceed("click_user_management") /\ page' = "users"
       ELSE Raise("click_user_management") /\ page' = page
    /\ UNCHANGED <<run, env_vars, driver, browser, stdout, file, fileAtStart,
                   exitStatus>>

\* Line 22: expect(page.locator(...)).to_have_text("Users")
ExpectUsers ==
    /\ pc = "expect_users"
    /\ IF StepOK("expect_users")
       THEN Proceed("expect_users")
       ELSE Raise("expect_users")
    /\ UNCHANGED <<run, env_vars, driver, browser, page, stdout, file,
                   fileAtStart, exitStatus>>

\* Line 25: page.screenshot(path="jules-scratch/verification/verification.png")
Screenshot ==
    /\ pc = "screenshot"
    /\ IF StepOK("screenshot")
       THEN Proceed("screenshot") /\ file' = WriteFile(file, run)
       ELSE Raise("screenshot") /\ file' \in FailedWrite(file, run)
    /\ UNCHANGED <<run, env_vars, driver, browser, page, stdout, fileAtStart,
                   exitStatus>>

\* Except, re-raising after the print.
ExceptReraise ==
    /\ pc = "except"
    /\ stdout' = Append(stdout, exc)
    /\ exc' = exc
    /\ pc' = After("except")
    /\ UNCHANGED <<run, env_vars, driver, browser, page, calls, file,
                   fileAtStart, exitStatus>>

\* Lines 27-28: except Exception as e: print(f"An error occurred: {e}")
\* The exception is handled: nothing is in flight after the block.
Except ==
    /\ pc = "except"
    /\ stdout' = Append(stdout, exc)
    /\ exc' = "none"
    /\ pc' = After("except")
    /\ UNCHANGED <<run, env_vars, driver, browser, page, calls, file,
                   fileAtStart, exitStatus>>

\* Lines 29-30: finally: browser.close()
\* When close raises, the browser may or may not have gone down.
Close ==
    /\ pc = "close"
    /\ IF ~closeFails
       THEN Proceed("close") /\ browser' = "closed"
       ELSE Raise("close") /\ browser' \in {"running", "closed"}
    /\ UNCHANGED <<run, env_vars, driver, page, stdout, file, fileAtStart,
                   exitStatus>>

\* Line 4, leaving the with block (normally or with an exception in flight,
\* which it does not suppress).
ExitWith ==
    /\ pc = "exit_with"
    /\ driver' = "stopped"
    /\ browser' = StopDriver(browser)
    /\ pc' = "exit"
    /\ UNCHANGED <<run, env_vars, page, calls, exc, stdout, file, fileAtStart,
                   exitStatus>>

\* Lines 32-33: run_verification() has returned or raised; the process ends.
ProcessExit ==
    /\ pc = "exit"
    /\ exitStatus' = ExitCode(exc)
    /\ pc' = "done"
    /\ UNCHANGED <<run, env_vars, driver, browser, page, calls, exc, stdout,
                   file, fileAtStart>>

\* Lines 32-33: the script is run again, in a new process; only the file
\* system carries over.
RunAgain ==
    /\ pc = "done"
    /\ run < MaxRuns
    /\ run' = run + 1
    /\ pc' = "sync_playwright"
    /\ \E env \in Environments : SetEnvironment(env)
    /\ driver' = "none"
    /\ browser' = "none"
    /\ page' = "none"
    /\ calls' = <<>>
    /\ exc' = "none"
    /\ stdout' = <<>>
    /\ fileAtStart' = file
    /\ exitStatus' = -1
    /\ UNCHANGED file

\* One statement of the running script.
Step ==
    \/ StartPlaywright
    \/ Launch
    \/ NewPage
    \/ Goto
    \/ FillUsername
    \/ FillPassword
    \/ ClickSignIn
    \/ ExpectDashboard
    \/ ClickUserManagement
    \/ ExpectUsers
    \/ Screenshot
    \/ Except
    \/ Close
    \/ ExitWith
    \/ ProcessExit

Next == Step \/ RunAgain

Spec == Init /\ [][Next]_vars

\* The script is a single sequential thread: a statement that can run, runs.
FairSpec == Spec /\ WF_vars(Step)

TypeOK ==
    /\ run \in 1..MaxRuns
    /\ driver \in {"none", "running", "stopped"}
    /\ browser \in {"none", "running", "closed"}
    /\ page \in {"none", "blank", "login", "dashboard", "users"}
    /\ exc \in Faultable \cup {"none", "close"}
    /\ exitStatus \in {-1, 0, 1}
    /\ file.writer \in 0..MaxRuns

----------------------------------------------------------------------------
(* What a run did, read from its log of calls. *)

Called(s) == \E i \in 1..Len(calls) : calls[i].step = s

Succeeded(s) == \E i \in 1..Len(calls) : calls[i] = [step |-> s, ok |-> TRUE]

Failed(s) == \E i \in 1..Len(calls) : calls[i] = [step |-> s, ok |-> FALSE]

CallNames == [i \in 1..Len(calls) |-> calls[i].step]

Position(s) == CHOOSE i \in 1..Len(calls) : calls[i].step = s

Before(a, b) == Called(a) /\ Called(b) /\ Position(a) < Position(b)

AllCallsOK == \A i \in 1..Len(calls) : calls[i].ok

\* The server is up and behaves, the credentials are valid, no call before
\* close hits a fault.
GoodEnvironment == serverUp /\ credsValid /\ fault = "none"

\* The screenshot as this run writes it.
Written == [exists |-> TRUE, writer |-> run, complete |-> TRUE]

\* The try block has been left.
PastTry == pc \in {"close", "exit_with", "exit", "done"}

LaterFlowSteps(s) ==
    {FlowSteps[j] : j \in (IndexOf(FlowSteps, s) + 1)..Len(FlowSteps)}

----------------------------------------------------------------------------
\* C1: once run_verification has been left (and so when the process has
\* terminated), on the success path and on every failure path, no launched
\* browser is still running.
C1_BrowserClosedOnExit == pc \in {"exit", "done"} => browser # "running"

\* A failure path the finally block does not cover: new_page raised, the
\* browser had been launched, and it is closed when the process has ended.
C1_Witness == pc = "done" /\ Failed("new_page") /\ browser = "closed"

----------------------------------------------------------------------------
\* The calls no except clause covers.
Unguarded == {"sync_playwright", "launch", "new_page", "close"}

\* C2 as stated: whichever of the calls it lists fails (launch, new_page, a
\* statement of the flow, close), or none, the process exits with status 0.
C2_AlwaysExitsZero ==
    pc = "done" /\ Succeeded("sync_playwright") => exitStatus = 0

\* C2 amended: the exit status is 0 exactly when none of sync_playwright(),
\* launch, new_page and close raised; a failure of a statement of the try
\* block is printed and leaves the status alone.
C2_ExitStatus ==
    pc = "done" =>
        /\ exitStatus = (IF \E s \in Unguarded : Failed(s) THEN 1 ELSE 0)
        /\ \A s \in Range(FlowSteps) : Failed(s) => stdout = <<s>>
        /\ (\A s \in Range(FlowSteps) : ~Failed(s)) => stdout = <<>>

\* A flow step failed, its error was printed, the process exited with 0.
C2_Witness ==
    pc = "done" /\ Failed("goto") /\ stdout = <<"goto">> /\ exitStatus = 0

----------------------------------------------------------------------------
\* C3: when a statement of the try block raises, the exception is caught,
\* exactly one message is printed, no later statement of the try block is
\* executed, control reaches browser.close(), and that exception does not
\* leave run_verification.
C3_FlowErrorCaught ==
    \A s \in Range(FlowSteps) :
        Failed(s) =>
            /\ \A t \in LaterFlowSteps(s) : ~Called(t)
            /\ Len(stdout) <= 1
            /\ pc = "except" => exc = s /\ stdout = <<>>
            /\ pc # "except" =>
                  /\ stdout = <<s>>
                  /\ exc # s
                  /\ pc = "close" \/ Called("close")

\* The Users assertion failed: printed once, close was called, the process
\* ended without the exception.
C3_Witness ==
    /\ pc = "done"
    /\ Failed("expect_users")
    /\ stdout = <<"expect_users">>
    /\ Called("close")
    /\ exc = "none"

----------------------------------------------------------------------------
\* C4: with a correctly behaving server and valid credentials (no call of the
\* flow fails), the run writes the screenshot at the fixed path, before
\* browser.close() is called, and the file is there when the process ends.
C4_ScreenshotOnSuccess ==
    /\ pc = "screenshot" => browser = "running"
    /\ GoodEnvironment /\ PastTry =>
          /\ Succeeded("screenshot")
          /\ file = Written
          /\ Called("close") => Before("screenshot", "close")

\* A successful run that created the file and closed the browser.
C4_Witness ==
    /\ pc = "done"
    /\ GoodEnvironment
    /\ ~fileAtStart.exists
    /\ file = Written
    /\ Before("screenshot", "close")
    /\ browser = "closed"

----------------------------------------------------------------------------
\* The SIGN IN click went through and the server rejected the credentials.
LoginFailed == Succeeded("click_sign_in") /\ ~credsValid

\* What C5 says apart from the exit status: the screenshot is written only
\* after both assertions passed in the same run; after a failed login the
\* Dashboard assertion fails, its error is printed, and no screenshot is
\* produced.
C5_Common ==
    /\ Called("screenshot") =>
          /\ Succeeded("expect_dashboard")
          /\ Succeeded("expect_users")
          /\ Before("expect_dashboard", "screenshot")
          /\ Before("expect_users", "screenshot")
    /\ file # fileAtStart => Called("screenshot")
    /\ LoginFailed /\ pc # "expect_dashboard" =>
          /\ Failed("expect_dashboard")
          /\ ~Called("screenshot")
          /\ file = fileAtStart
    /\ LoginFailed /\ pc = "done" =>
          /\ stdout = <<"expect_dashboard">>
          /\ browser # "running"

\* C5 as stated: ... and after a failed login the script exits cleanly.
C5_LoginFailureExitsCleanly ==
    /\ C5_Common
    /\ LoginFailed /\ pc = "done" => exitStatus = 0

\* C5 amended: ... and after a failed login the script exits with status 0
\* unless browser.close() raises, in which case that exception leaves
\* run_verification and the status is 1.
C5_NoScreenshotWithoutAssertions ==
    /\ C5_Common
    /\ LoginFailed /\ pc = "done" =>
          exitStatus = (IF Failed("close") THEN 1 ELSE 0)

\* Wrong credentials against a working server: the Dashboard assertion
\* failed, the error was printed, no screenshot, exit status 0.
C5_Witness ==
    /\ pc = "done"
    /\ LoginFailed
    /\ serverUp
    /\ fault = "none"
    /\ Failed("expect_dashboard")
    /\ stdout = <<"expect_dashboard">>
    /\ file = fileAtStart
    /\ exitStatus = 0

----------------------------------------------------------------------------
\* C6: a run against a correctly working server that finds a screenshot file
\* already at the path (left by the run before it) does not fail at the
\* screenshot: it replaces the file, and the file at the path is then the one
\* this run wrote.
C6_SecondRunOverwrites ==
    fileAtStart.exists /\ GoodEnvironment /\ PastTry =>
        /\ Succeeded("screenshot")
        /\ stdout = <<>>
        /\ file = Written
        /\ file # fileAtStart

\* Two successful runs in succession: the file of run 1 was there when run 2
\* started, and the file is now the one of run 2.
C6_Witness ==
    /\ run = 2
    /\ pc = "done"
    /\ GoodEnvironment
    /\ fileAtStart = [exists |-> TRUE, writer |-> 1, complete |-> TRUE]
    /\ file = [exists |-> TRUE, writer |-> 2, complete |-> TRUE]
    /\ exitStatus = 0

----------------------------------------------------------------------------
(* The state machine of the component design, read off the log of calls.  *)

FixedSequence ==
    <<"Launched", "Navigated", "AuthenticatedAttempted", "AssertedDashboard",
      "NavigatedToUsers", "AssertedUsers", "ScreenshotAttempted">>

\* The call whose normal return enters the state of the same index.
StateSteps ==
    <<"launch", "goto", "click_sign_in", "expect_dashboard",
      "click_user_management", "expect_users", "screenshot">>

RECURSIVE StatesOf(_)
StatesOf(cs) ==
    IF cs = <<>> THEN <<>>
    ELSE LET h == Head(cs) IN
         (IF h.ok /\ h.step \in Range(StateSteps)
          THEN <<FixedSequence[IndexOf(StateSteps, h.step)]>>
          ELSE <<>>) \o StatesOf(Tail(cs))

IsPrefix(p, s) == Len(p) <= Len(s) /\ p = SubSeq(s, 1, Len(p))

\* Closed: no browser of this run is running any more, because it was closed
\* or because the run ended without having launched one.
Closed ==
    \/ browser = "closed"
    \/ browser = "none" /\ pc \in {"exit", "done"}

C7_Invariant ==
    /\ IsPrefix(StatesOf(calls), FixedSequence)
    /\ \A i, j \in 1..Len(calls) : i # j => calls[i].step # calls[j].step
    /\ \A i, j \in 1..Len(calls) :
          i < j /\ ~calls[i].ok => calls[j].step = "close"
    /\ pc = "done" => Closed
    /\ Closed => pc \in {"exit_with", "exit", "done"}

C7_ClosedIsTerminal ==
    Closed /\ run' = run => Closed' /\ calls' = calls /\ page' = page

\* C7: the states a run visits are a prefix of Launched, Navigated,
\* AuthenticatedAttempted, AssertedDashboard, NavigatedToUsers, AssertedUsers,
\* ScreenshotAttempted, in that order, none skipped or repeated; no call is
\* made twice; after a call fails the only call still made is close; every
\* terminated run is in Closed; and once in Closed a run makes no further
\* call and the page does not change.
C7_PrefixThenClosed == []C7_Invariant /\ [][C7_ClosedIsTerminal]_vars

\* A run that short-circuited at the Dashboard assertion and is Closed.
C7_Witness ==
    /\ pc = "done"
    /\ StatesOf(calls) = SubSeq(FixedSequence, 1, 3)
    /\ Failed("expect_dashboard")
    /\ browser = "closed"

----------------------------------------------------------------------------
\* The order of the system overview: both assertions, then the link.
SpecOrder ==
    <<"sync_playwright", "launch", "new_page", "goto", "fill_username",
      "fill_password", "click_sign_in", "expect_dashboard", "expect_users",
      "click_user_management", "screenshot", "close">>

\* The order of the statements in the source.
SourceOrder == SetupSteps \o FlowSteps \o <<"close">>

\* C8 as stated: in a run in which every step succeeds, the steps happen in
\* the order of the system overview, both text assertions before the click on
\* "User Management".
C8_AssertionsBeforeLink ==
    pc = "done" /\ AllCallsOK => CallNames = SpecOrder

\* C8 amended: in a run in which every step succeeds the order is launch, open
\* page, goto, fill, fill, click SIGN IN, assert "Dashboard", click "User
\* Management", assert "Users", screenshot, close: the Users assertion comes
\* after the click.  Every run in a good environment whose close succeeds is
\* such a run.
C8_SourceOrder ==
    /\ pc = "done" /\ AllCallsOK => CallNames = SourceOrder
    /\ pc = "done" /\ GoodEnvironment /\ ~closeFails =>
          AllCallsOK /\ CallNames = SourceOrder

\* A run in which every step succeeded.
C8_Witness ==
    /\ pc = "done"
    /\ AllCallsOK
    /\ Len(calls) = Len(SourceOrder)
    /\ Before("click_user_management", "expect_users")

----------------------------------------------------------------------------
\* C9: every run terminates, with the driver stopped and no browser running,
\* whatever the server does (each wait ends with its condition met or with an
\* error).
C9_EveryRunTerminates ==
    (pc # "done") ~>
        (pc = "done" /\ browser # "running" /\ driver # "running")

\* A terminated run against an absent server.
C9_Witness ==
    /\ pc = "done"
    /\ ~serverUp
    /\ Failed("goto")
    /\ browser = "closed"
    /\ driver = "stopped"

----------------------------------------------------------------------------
\* The calls before the screenshot statement.
BeforeScreenshot == (Range(SetupSteps) \cup Range(FlowSteps)) \ {"screenshot"}

\* C10: a run in which a call before the screenshot statement fails leaves the
\* file at the screenshot path exactly as it was when the run started.
C10_FailedRunLeavesFile ==
    (\E s \in BeforeScreenshot : Failed(s)) =>
        ~Called("screenshot") /\ file = fileAtStart

\* A failed second run: the path still holds the screenshot of run 1.
C10_Witness ==
    /\ run = 2
    /\ pc = "done"
    /\ Failed("expect_dashboard")
    /\ file = [exists |-> TRUE, writer |-> 1, complete |-> TRUE]

====
